---- MODULE Spec2Model ----
(***************************************************************************)
(* Model of src/image_recognition/image_recognition_main.py:               *)
(* ImageRecognitionEngine (construction, analyze_image, detect_labels and  *)
(* its keyword helpers) and the standalone detect_labels function.         *)
(*                                                                         *)
(* Python strings are sequences of one-character strings, so that          *)
(* str.lower() and the substring test `kw in s` are computed, not assumed. *)
(* Confidences and scores are integers in hundredths (50 is 0.5).          *)
(***************************************************************************)
EXTENDS Integers, Sequences, FiniteSets, TLC

VARIABLES
  env,      \* what the constructor found: files, load failures, credentials
  engine,   \* the ImageRecognitionEngine object's fields
  pc,       \* the caller's position: "idle", "called", "returned" or "raised"
  call,     \* the operation called last and its arguments
  result,   \* the value that call returned
  trace     \* the external operations that call performed, in order

vars == <<env, engine, pc, call, result, trace>>

---------------------------------------------------------------------------
(* Strings *)

UpperChars ==
  <<"A", "B", "C", "D", "E", "F", "G", "H", "I", "J", "K", "L", "M",
    "N", "O", "P", "Q", "R", "S", "T", "U", "V", "W", "X", "Y", "Z",
    "À", "È", "É", "Û">>

LowerChars ==
  <<"a", "b", "c", "d", "e", "f", "g", "h", "i", "j", "k", "l", "m",
    "n", "o", "p", "q", "r", "s", "t", "u", "v", "w", "x", "y", "z",
    "à", "è", "é", "û">>

UpperSet == {UpperChars[i] : i \in 1..Len(UpperChars)}

\* str.lower() on one character.
LowerChar(c) ==
  IF c \in UpperSet
  THEN LowerChars[CHOOSE i \in 1..Len(UpperChars) : UpperChars[i] = c]
  ELSE c

\* str.lower()
Lower(s) == [i \in 1..Len(s) |-> LowerChar(s[i])]

\* Python's `kw in s` on strings: kw occurs in s as a contiguous substring.
Contains(kw, s) ==
  \/ kw = <<>>
  \/ \E i \in 0..(Len(s) - Len(kw)) :
       s[i + 1] = kw[1] /\ SubSeq(s, i + 1, i + Len(kw)) = kw

---------------------------------------------------------------------------
(* Keyword tables *)

\* _detect_anomalies: the keyword list, in source order (duplicates kept).
anomaly_keywords ==
  <<
    <<"d", "a", "m", "a", "g", "e">>,  \* "damage"
    <<"d", "a", "m", "a", "g", "e", "d">>,  \* "damaged"
    <<"b", "r", "o", "k", "e", "n">>,  \* "broken"
    <<"c", "r", "a", "c", "k">>,  \* "crack"
    <<"c", "r", "a", "c", "k", "e", "d">>,  \* "cracked"
    <<"d", "e", "n", "t">>,  \* "dent"
    <<"d", "e", "n", "t", "e", "d">>,  \* "dented"
    <<"s", "c", "r", "a", "t", "c", "h">>,  \* "scratch"
    <<"s", "c", "r", "a", "t", "c", "h", "e", "d">>,  \* "scratched"
    <<"r", "u", "s", "t">>,  \* "rust"
    <<"r", "u", "s", "t", "y">>,  \* "rusty"
    <<"c", "o", "r", "r", "o", "s", "i", "o", "n">>,  \* "corrosion"
    <<"l", "e", "a", "k">>,  \* "leak"
    <<"l", "e", "a", "k", "i", "n", "g">>,  \* "leaking"
    <<"w", "o", "r", "n">>,  \* "worn"
    <<"w", "e", "a", "r">>,  \* "wear"
    <<"t", "e", "a", "r">>,  \* "tear"
    <<"b", "e", "n", "t">>,  \* "bent"
    <<"b", "u", "r", "n", "t">>,  \* "burnt"
    <<"b", "u", "r", "n", "e", "d">>,  \* "burned"
    <<"m", "e", "l", "t", "e", "d">>,  \* "melted"
    <<"f", "l", "a", "t">>,  \* "flat"
    <<"a", "c", "c", "i", "d", "e", "n", "t">>,  \* "accident"
    <<"c", "o", "l", "l", "i", "s", "i", "o", "n">>,  \* "collision"
    <<"p", "r", "o", "b", "l", "e", "m">>,  \* "problem"
    <<"i", "s", "s", "u", "e">>,  \* "issue"
    <<"f", "a", "u", "l", "t">>,  \* "fault"
    <<"e", "r", "r", "o", "r">>,  \* "error"
    <<"w", "a", "r", "n", "i", "n", "g">>,  \* "warning"
    <<"d", "o", "m", "m", "a", "g", "e">>,  \* "dommage"
    <<"e", "n", "d", "o", "m", "m", "a", "g", "é">>,  \* "endommagé"
    <<"c", "a", "s", "s", "é">>,  \* "cassé"
    <<"f", "i", "s", "s", "u", "r", "e">>,  \* "fissure"
    <<"f", "i", "s", "s", "u", "r", "é">>,  \* "fissuré"
    <<"b", "o", "s", "s", "e", "l", "é">>,  \* "bosselé"
    <<"b", "o", "s", "s", "e">>,  \* "bosse"
    <<"r", "a", "y", "u", "r", "e">>,  \* "rayure"
    <<"r", "a", "y", "é">>,  \* "rayé"
    <<"r", "o", "u", "i", "l", "l", "e">>,  \* "rouille"
    <<"r", "o", "u", "i", "l", "l", "é">>,  \* "rouillé"
    <<"c", "o", "r", "r", "o", "s", "i", "o", "n">>,  \* "corrosion"
    <<"f", "u", "i", "t", "e">>,  \* "fuite"
    <<"u", "s", "é">>,  \* "usé"
    <<"u", "s", "u", "r", "e">>,  \* "usure"
    <<"d", "é", "c", "h", "i", "r", "u", "r", "e">>,  \* "déchirure"
    <<"p", "l", "i", "é">>,  \* "plié"
    <<"b", "r", "û", "l", "é">>,  \* "brûlé"
    <<"f", "o", "n", "d", "u">>,  \* "fondu"
    <<"d", "é", "g", "o", "n", "f", "l", "é">>,  \* "dégonflé"
    <<"à", " ", "p", "l", "a", "t">>,  \* "à plat"
    <<"a", "c", "c", "i", "d", "e", "n", "t">>,  \* "accident"
    <<"c", "o", "l", "l", "i", "s", "i", "o", "n">>,  \* "collision"
    <<"p", "r", "o", "b", "l", "è", "m", "e">>,  \* "problème"
    <<"p", "a", "n", "n", "e">>,  \* "panne"
    <<"d", "é", "f", "a", "u", "t">>,  \* "défaut"
    <<"e", "r", "r", "e", "u", "r">>,  \* "erreur"
    <<"a", "l", "e", "r", "t", "e">>  \* "alerte"
  >>

\* _is_car_related: the keyword list, in source order (duplicates kept).
car_keywords ==
  <<
    <<"c", "a", "r">>,  \* "car"
    <<"a", "u", "t", "o", "m", "o", "b", "i", "l", "e">>,  \* "automobile"
    <<"v", "e", "h", "i", "c", "l", "e">>,  \* "vehicle"
    <<"m", "o", "t", "o", "r">>,  \* "motor"
    <<"e", "n", "g", "i", "n", "e">>,  \* "engine"
    <<"w", "h", "e", "e", "l">>,  \* "wheel"
    <<"t", "i", "r", "e">>,  \* "tire"
    <<"b", "r", "a", "k", "e">>,  \* "brake"
    <<"s", "u", "s", "p", "e", "n", "s", "i", "o", "n">>,  \* "suspension"
    <<"t", "r", "a", "n", "s", "m", "i", "s", "s", "i", "o", "n">>,  \* "transmission"
    <<"e", "x", "h", "a", "u", "s", "t">>,  \* "exhaust"
    <<"b", "a", "t", "t", "e", "r", "y">>,  \* "battery"
    <<"h", "e", "a", "d", "l", "i", "g", "h", "t">>,  \* "headlight"
    <<"t", "a", "i", "l", "l", "i", "g", "h", "t">>,  \* "taillight"
    <<"w", "i", "n", "d", "s", "h", "i", "e", "l", "d">>,  \* "windshield"
    <<"h", "o", "o", "d">>,  \* "hood"
    <<"t", "r", "u", "n", "k">>,  \* "trunk"
    <<"b", "u", "m", "p", "e", "r">>,  \* "bumper"
    <<"d", "o", "o", "r">>,  \* "door"
    <<"d", "a", "s", "h", "b", "o", "a", "r", "d">>,  \* "dashboard"
    <<"s", "t", "e", "e", "r", "i", "n", "g">>,  \* "steering"
    <<"a", "i", "r", "b", "a", "g">>,  \* "airbag"
    <<"s", "e", "a", "t">>,  \* "seat"
    <<"s", "e", "a", "t", "b", "e", "l", "t">>,  \* "seatbelt"
    <<"m", "i", "r", "r", "o", "r">>,  \* "mirror"
    <<"w", "i", "p", "e", "r">>,  \* "wiper"
    <<"r", "a", "d", "i", "a", "t", "o", "r">>,  \* "radiator"
    <<"v", "o", "i", "t", "u", "r", "e">>,  \* "voiture"
    <<"a", "u", "t", "o", "m", "o", "b", "i", "l", "e">>,  \* "automobile"
    <<"v", "é", "h", "i", "c", "u", "l", "e">>,  \* "véhicule"
    <<"m", "o", "t", "e", "u", "r">>,  \* "moteur"
    <<"r", "o", "u", "e">>,  \* "roue"
    <<"p", "n", "e", "u">>,  \* "pneu"
    <<"f", "r", "e", "i", "n">>,  \* "frein"
    <<"s", "u", "s", "p", "e", "n", "s", "i", "o", "n">>,  \* "suspension"
    <<"t", "r", "a", "n", "s", "m", "i", "s", "s", "i", "o", "n">>,  \* "transmission"
    <<"é", "c", "h", "a", "p", "p", "e", "m", "e", "n", "t">>,  \* "échappement"
    <<"b", "a", "t", "t", "e", "r", "i", "e">>,  \* "batterie"
    <<"p", "h", "a", "r", "e">>,  \* "phare"
    <<"f", "e", "u">>,  \* "feu"
    <<"p", "a", "r", "e", "-", "b", "r", "i", "s", "e">>,  \* "pare-brise"
    <<"c", "a", "p", "o", "t">>,  \* "capot"
    <<"c", "o", "f", "f", "r", "e">>,  \* "coffre"
    <<"p", "a", "r", "e", "-", "c", "h", "o", "c">>,  \* "pare-choc"
    <<"p", "o", "r", "t", "i", "è", "r", "e">>,  \* "portière"
    <<"t", "a", "b", "l", "e", "a", "u", " ", "d", "e", " ", "b", "o", "r", "d">>,  \* "tableau de bord"
    <<"v", "o", "l", "a", "n", "t">>,  \* "volant"
    <<"a", "i", "r", "b", "a", "g">>,  \* "airbag"
    <<"s", "i", "è", "g", "e">>,  \* "siège"
    <<"c", "e", "i", "n", "t", "u", "r", "e">>,  \* "ceinture"
    <<"r", "é", "t", "r", "o", "v", "i", "s", "e", "u", "r">>,  \* "rétroviseur"
    <<"e", "s", "s", "u", "i", "e", "-", "g", "l", "a", "c", "e">>,  \* "essuie-glace"
    <<"r", "a", "d", "i", "a", "t", "e", "u", "r">>  \* "radiateur"
  >>

\* detect_labels (standalone): its own, shorter anomaly keyword list.
standalone_anomaly_keywords ==
  <<
    <<"d", "a", "m", "a", "g", "e">>,  \* "damage"
    <<"b", "r", "o", "k", "e", "n">>,  \* "broken"
    <<"c", "r", "a", "c", "k">>,  \* "crack"
    <<"d", "e", "n", "t">>,  \* "dent"
    <<"s", "c", "r", "a", "t", "c", "h">>,  \* "scratch"
    <<"r", "u", "s", "t">>,  \* "rust"
    <<"l", "e", "a", "k">>,  \* "leak"
    <<"w", "o", "r", "n">>,  \* "worn"
    <<"b", "e", "n", "t">>,  \* "bent"
    <<"b", "u", "r", "n", "t">>,  \* "burnt"
    <<"a", "c", "c", "i", "d", "e", "n", "t">>,  \* "accident"
    <<"p", "r", "o", "b", "l", "e", "m">>,  \* "problem"
    <<"i", "s", "s", "u", "e">>,  \* "issue"
    <<"f", "a", "u", "l", "t">>,  \* "fault"
    <<"d", "o", "m", "m", "a", "g", "e">>,  \* "dommage"
    <<"c", "a", "s", "s", "é">>,  \* "cassé"
    <<"f", "i", "s", "s", "u", "r", "e">>,  \* "fissure"
    <<"b", "o", "s", "s", "e">>,  \* "bosse"
    <<"r", "a", "y", "u", "r", "e">>,  \* "rayure"
    <<"r", "o", "u", "i", "l", "l", "e">>,  \* "rouille"
    <<"f", "u", "i", "t", "e">>,  \* "fuite"
    <<"u", "s", "é">>,  \* "usé"
    <<"p", "l", "i", "é">>,  \* "plié"
    <<"b", "r", "û", "l", "é">>,  \* "brûlé"
    <<"a", "c", "c", "i", "d", "e", "n", "t">>,  \* "accident"
    <<"p", "r", "o", "b", "l", "è", "m", "e">>,  \* "problème"
    <<"p", "a", "n", "n", "e">>,  \* "panne"
    <<"d", "é", "f", "a", "u", "t">>  \* "défaut"
  >>

\* detect_labels (standalone): its own, shorter car keyword list.
standalone_car_keywords ==
  <<
    <<"c", "a", "r">>,  \* "car"
    <<"v", "e", "h", "i", "c", "l", "e">>,  \* "vehicle"
    <<"m", "o", "t", "o", "r">>,  \* "motor"
    <<"e", "n", "g", "i", "n", "e">>,  \* "engine"
    <<"w", "h", "e", "e", "l">>,  \* "wheel"
    <<"t", "i", "r", "e">>,  \* "tire"
    <<"b", "r", "a", "k", "e">>,  \* "brake"
    <<"t", "r", "a", "n", "s", "m", "i", "s", "s", "i", "o", "n">>,  \* "transmission"
    <<"e", "x", "h", "a", "u", "s", "t">>,  \* "exhaust"
    <<"b", "a", "t", "t", "e", "r", "y">>,  \* "battery"
    <<"h", "e", "a", "d", "l", "i", "g", "h", "t">>,  \* "headlight"
    <<"b", "u", "m", "p", "e", "r">>,  \* "bumper"
    <<"v", "o", "i", "t", "u", "r", "e">>,  \* "voiture"
    <<"v", "é", "h", "i", "c", "u", "l", "e">>,  \* "véhicule"
    <<"m", "o", "t", "e", "u", "r">>,  \* "moteur"
    <<"r", "o", "u", "e">>,  \* "roue"
    <<"p", "n", "e", "u">>,  \* "pneu"
    <<"f", "r", "e", "i", "n">>,  \* "frein"
    <<"t", "r", "a", "n", "s", "m", "i", "s", "s", "i", "o", "n">>,  \* "transmission"
    <<"é", "c", "h", "a", "p", "p", "e", "m", "e", "n", "t">>,  \* "échappement"
    <<"b", "a", "t", "t", "e", "r", "i", "e">>,  \* "batterie"
    <<"p", "h", "a", "r", "e">>,  \* "phare"
    <<"p", "a", "r", "e", "-", "c", "h", "o", "c">>  \* "pare-choc"
  >>

---------------------------------------------------------------------------
(* Diagnosis mapper: keyword matching over a label map.                    *)
(* A label map (a Python dict) is the sequence of its items in insertion   *)
(* order, each [label, score], with unique labels.                         *)

\* Position of key k in dict d, 0 when absent.
KeyIndex(d, k) ==
  IF \E i \in 1..Len(d) : d[i].label = k
  THEN CHOOSE i \in 1..Len(d) : d[i].label = k
  ELSE 0

\* d[k] = v: a new key is appended, an existing key keeps its position.
DictSet(d, k, v) ==
  IF KeyIndex(d, k) = 0
  THEN Append(d, [label |-> k, score |-> v])
  ELSE [d EXCEPT ![KeyIndex(d, k)].score = v]

\* sorted(items, key=score, reverse=True): stable, equal scores keep their
\* order. Insert(sorted, e) places e after every element with score >= e's.
RECURSIVE InsertDesc(_, _)
InsertDesc(sorted, e) ==
  IF sorted = <<>> THEN <<e>>
  ELSE IF Head(sorted).score >= e.score
       THEN <<Head(sorted)>> \o InsertDesc(Tail(sorted), e)
       ELSE <<e>> \o sorted

RECURSIVE SortedDesc(_)
SortedDesc(items) ==
  IF items = <<>> THEN <<>>
  ELSE InsertDesc(SortedDesc(SubSeq(items, 1, Len(items) - 1)), items[Len(items)])

\* The items of a label map, each with label.lower() next to it (the loops
\* below lower the same label once per keyword; it is lowered once here).
WithLower(labels) ==
  [i \in 1..Len(labels) |->
     [label |-> labels[i].label, score |-> labels[i].score,
      lower |-> Lower(labels[i].label)]]

\* The inner loop of the anomaly scan for one keyword: one entry per label
\* whose lower-cased text contains the keyword, in dict order.
KeywordMatches(keyword, items) ==
  LET hit == SelectSeq(items, LAMBDA e : Contains(keyword, e.lower))
  IN  [i \in 1..Len(hit) |->
         [type |-> keyword, label |-> hit[i].label, score |-> hit[i].score]]

\* The outer loop: keywords k..Len(keywords) in list order.
RECURSIVE ScanKeywords(_, _, _)
ScanKeywords(keywords, k, items) ==
  IF k > Len(keywords) THEN <<>>
  ELSE KeywordMatches(keywords[k], items) \o ScanKeywords(keywords, k + 1, items)

\* The nested loops of the car test: True at the first (keyword, label) hit,
\* False when there is none.
AnyKeywordHit(keywords, items) ==
  \E k \in 1..Len(keywords) :
    \E j \in 1..Len(items) : Contains(keywords[k], items[j].lower)

\* _detect_anomalies with the final sort left out.
_detect_anomalies_unsorted(labels) ==
  ScanKeywords(anomaly_keywords, 1, WithLower(labels))

\* ImageRecognitionEngine._detect_anomalies
_detect_anomalies(labels) ==
  SortedDesc(ScanKeywords(anomaly_keywords, 1, WithLower(labels)))

\* _is_car_related with the labels compared as they are, not lower-cased.
_is_car_related_case_sensitive(labels) ==
  AnyKeywordHit(car_keywords,
    [i \in 1..Len(labels) |->
       [label |-> labels[i].label, score |-> labels[i].score,
        lower |-> labels[i].label]])

\* ImageRecognitionEngine._is_car_related
_is_car_related(labels) == AnyKeywordHit(car_keywords, WithLower(labels))

---------------------------------------------------------------------------
(* Diagnosis mapper: advice strings from the detected class names.         *)
(* A diagnosis is a message shown as a whole, so it is an atomic string.   *)

\* _generate_diagnoses: the component_diagnoses dict, in insertion order.
component_diagnoses ==
  << [component |-> <<"f", "r", "e", "i", "n">>,
      diagnosis |-> "Vérifiez l'état des plaquettes et des disques de frein"],
     [component |-> <<"p", "n", "e", "u">>,
      diagnosis |-> "Inspectez l'usure et la pression des pneus"],
     [component |-> <<"h", "u", "i", "l", "e">>,
      diagnosis |-> "Contrôlez le niveau et la qualité de l'huile"],
     [component |-> <<"m", "o", "t", "e", "u", "r">>,
      diagnosis |-> "Examinez l'état général du moteur"],
     [component |-> <<"b", "a", "t", "t", "e", "r", "i", "e">>,
      diagnosis |-> "Vérifiez les connections et la charge de la batterie"],
     [component |-> <<"p", "h", "a", "r", "e">>,
      diagnosis |-> "Assurez-vous que tous les phares fonctionnent correctement"] >>

NothingRecognized == "Aucun objet automobile reconnu dans l'image"

NoSpecificIssue ==
  "Composants automobiles détectés, mais aucun problème spécifique identifié"

CorrosionAdvice ==
  "Présence de corrosion détectée - vérifiez l'étendue des dommages"

LeakAdvice == "Fuite de liquide détectée - vérifiez le type et la source"

CrackAdvice == "Fissure détectée - inspectez la gravité et l'emplacement"

\* `x in detected_classes`: list membership, the whole class name equals x.
InList(x, list) == \E i \in 1..Len(list) : list[i] = x

\* The component loop with `component in detected_classes` (the whole class
\* name) in place of the substring test.
ComponentAdvice_exact(detected_classes) ==
  LET fired == SelectSeq(component_diagnoses,
                 LAMBDA c : InList(c.component, detected_classes))
  IN  [i \in 1..Len(fired) |-> fired[i].diagnosis]

\* The loop over component_diagnoses: the advice of every component that is
\* a substring of some detected class, in dict order.
ComponentAdvice(detected_classes) ==
  LET fired == SelectSeq(component_diagnoses,
                 LAMBDA c : \E i \in 1..Len(detected_classes) :
                              Contains(c.component, detected_classes[i]))
  IN  [i \in 1..Len(fired) |-> fired[i].diagnosis]

\* The three condition tests that follow the loop, in source order.
ConditionAdvice(detected_classes) ==
  (IF \/ InList(<<"r", "o", "u", "i", "l", "l", "e">>, detected_classes)
      \/ InList(<<"c", "o", "r", "r", "o", "s", "i", "o", "n">>, detected_classes)
   THEN <<CorrosionAdvice>> ELSE <<>>)
  \o
  (IF \/ InList(<<"f", "u", "i", "t", "e">>, detected_classes)
      \/ InList(<<"l", "i", "q", "u", "i", "d", "e">>, detected_classes)
   THEN <<LeakAdvice>> ELSE <<>>)
  \o
  (IF InList(<<"f", "i", "s", "s", "u", "r", "e">>, detected_classes)
   THEN <<CrackAdvice>> ELSE <<>>)

\* _generate_diagnoses without the early return on an empty list.
_generate_diagnoses_no_early_return(detections) ==
  LET detected_classes == [i \in 1..Len(detections) |-> Lower(detections[i].class)]
      diagnoses == ComponentAdvice(detected_classes) \o ConditionAdvice(detected_classes)
  IN  IF diagnoses = <<>> THEN <<NoSpecificIssue>> ELSE diagnoses

\* ImageRecognitionEngine._generate_diagnoses
_generate_diagnoses(detections) ==
  LET detected_classes == [i \in 1..Len(detections) |-> Lower(detections[i].class)]
      diagnoses == ComponentAdvice(detected_classes) \o ConditionAdvice(detected_classes)
  IN  IF detected_classes = <<>> THEN <<NothingRecognized>>
      ELSE IF diagnoses = <<>> THEN <<NoSpecificIssue>>
      ELSE diagnoses

---------------------------------------------------------------------------
(* Bounds and input pools *)

MaxRows == 2          \* rows in one network output
MaxAnnotations == 2   \* label annotations in one remote response
MaxLabels == 2        \* keys in a label map handed to the keyword helpers
MaxDetections == 2    \* detections handed to _generate_diagnoses

\* All sequences over S of length 0..n.
SeqsUpTo(S, n) == UNION {[1..k -> S] : k \in 0..n}

\* Python's None, for an optional argument that is otherwise a string.
NoneValue == "<None>"

s_frein_avant == <<"F", "r", "e", "i", "n", " ", "a", "v", "a", "n", "t">>
s_pneu == <<"p", "n", "e", "u">>
s_brake == <<"b", "r", "a", "k", "e">>
s_rouille == <<"r", "o", "u", "i", "l", "l", "e">>
s_tache_de_rouille ==
  <<"t", "a", "c", "h", "e", " ", "d", "e", " ", "r", "o", "u", "i", "l", "l", "e">>
s_fuite == <<"f", "u", "i", "t", "e">>
s_fissure == <<"F", "i", "s", "s", "u", "r", "e">>
s_volant == <<"v", "o", "l", "a", "n", "t">>
s_car_door == <<"c", "a", "r", " ", "d", "o", "o", "r">>
s_Car_Door == <<"C", "a", "r", " ", "D", "o", "o", "r">>
s_flower == <<"f", "l", "o", "w", "e", "r">>
s_cardboard == <<"c", "a", "r", "d", "b", "o", "a", "r", "d">>
s_Rusty_Bolt == <<"R", "u", "s", "t", "y", " ", "B", "o", "l", "t">>
s_cracked_glass ==
  <<"c", "r", "a", "c", "k", "e", "d", " ", "g", "l", "a", "s", "s">>
s_corrosion == <<"c", "o", "r", "r", "o", "s", "i", "o", "n">>
s_VEHICULE == <<"V", "É", "H", "I", "C", "U", "L", "E">>

---------------------------------------------------------------------------
(* Engine construction *)

\* The label table file (.pbtxt) as its lines. A line that contains 'id:' is
\* [tag "id"] when the text after the last colon is an integer and
\* [tag "id_garbled"] when it is not (int() raises ValueError); a line that
\* contains 'name:' is [tag "name"]; any other line is [tag "other"].
IdLine(n) == [tag |-> "id", id |-> n, name |-> <<>>]
GarbledIdLine == [tag |-> "id_garbled", id |-> 0, name |-> <<>>]
NameLine(s) == [tag |-> "name", id |-> 0, name |-> s]
OtherLine == [tag |-> "other", id |-> 0, name |-> <<>>]

LabelFiles ==
  { <<>>,
    <<OtherLine, IdLine(1), NameLine(s_frein_avant), OtherLine,
      OtherLine, IdLine(2), NameLine(s_rouille), OtherLine>>,
    <<IdLine(1), NameLine(s_brake), GarbledIdLine, NameLine(s_pneu)>>,
    <<GarbledIdLine, NameLine(s_pneu)>>,
    <<NameLine(s_volant), IdLine(2), IdLine(1), NameLine(s_fissure),
      NameLine(s_pneu)>> }

\* The for loop of _load_labels from line i on. current_id is {} for None
\* and {n} for the integer n. The result is the table filled so far and
\* whether the loop was left by an exception.
RECURSIVE LoadLines(_, _, _, _)
LoadLines(lines, i, current_id, labels) ==
  IF i > Len(lines) THEN [labels |-> labels, raised |-> FALSE]
  ELSE LET line == lines[i]
       IN  CASE line.tag = "id_garbled" -> [labels |-> labels, raised |-> TRUE]
             [] line.tag = "id" -> LoadLines(lines, i + 1, {line.id}, labels)
             [] line.tag = "name" ->
                  IF current_id # {}
                  THEN LoadLines(lines, i + 1, {},
                         [n \in DOMAIN labels \cup current_id |->
                            IF n \in current_id THEN line.name ELSE labels[n]])
                  ELSE LoadLines(lines, i + 1, current_id, labels)
             [] OTHER -> LoadLines(lines, i + 1, current_id, labels)

\* ImageRecognitionEngine._load_labels, on self.labels = {}
_load_labels(lines) == LoadLines(lines, 1, {}, <<>>)

Thresholds == {30, 50}

\* What the constructor meets: os.path.exists of the two files, whether
\* readNetFromTensorflow raises, the label file's lines, whether
\* ImageAnnotatorClient() raises, and CONFIDENCE_THRESHOLD.
\* Fields the constructor never reads in a given case have one fixed value.
Environments ==
  { [model_exists |-> m, labels_exists |-> l, readNet_raises |-> r,
     labels_file |-> f, vision_raises |-> v, threshold |-> t] :
      m \in BOOLEAN, l \in BOOLEAN, r \in BOOLEAN, f \in LabelFiles,
      v \in BOOLEAN, t \in Thresholds }

Canonical(e) ==
  /\ (~(e.model_exists /\ e.labels_exists)) => ~e.readNet_raises
  /\ (~(e.model_exists /\ e.labels_exists) \/ e.readNet_raises)
       => e.labels_file = <<>>

\* __init__ with `or` in place of `and` in the test of the two files.
EngineInit_either_file(e) ==
  LET net_loaded == (e.model_exists \/ e.labels_exists) /\ ~e.readNet_raises
  IN  [ confidence_threshold |-> e.threshold,
        net |-> IF net_loaded THEN "net" ELSE "None",
        labels |-> IF net_loaded THEN _load_labels(e.labels_file).labels ELSE <<>>,
        initialized |-> TRUE,
        vision_api_available |-> ~e.vision_raises ]

\* ImageRecognitionEngine.__init__: the fields of the constructed engine.
\* net is assigned before _load_labels runs, and the except clause only
\* prints, so an exception in _load_labels leaves net set and the table
\* filled up to the failing line.
EngineInit(e) ==
  LET try_load == e.model_exists /\ e.labels_exists
      net_loaded == try_load /\ ~e.readNet_raises
  IN  [ confidence_threshold |-> e.threshold,
        net |-> IF net_loaded THEN "net" ELSE "None",
        labels |-> IF net_loaded THEN _load_labels(e.labels_file).labels ELSE <<>>,
        initialized |-> TRUE,
        vision_api_available |-> ~e.vision_raises ]

---------------------------------------------------------------------------
(* Images, the file system and the network *)

\* An image is its numpy shape and what OpenCV computes from its pixels:
\* the areas of the external contours of its Canny edges, and per colour the
\* percentage of pixels inside the colour's HSV range (in dict order).
ImageCar ==
  [ shape |-> <<4, 6, 3>>,
    contour_areas |-> <<1200, 30, 501>>,
    color_percent |-> << [name |-> "rouge", percent |-> 62],
                         [name |-> "jaune", percent |-> 0],
                         [name |-> "vert", percent |-> 3],
                         [name |-> "bleu", percent |-> 3] >> ]

ImageArrayBGR ==
  [ shape |-> <<2, 2, 3>>,
    contour_areas |-> <<>>,
    color_percent |-> << [name |-> "rouge", percent |-> 5],
                         [name |-> "jaune", percent |-> 5],
                         [name |-> "vert", percent |-> 0],
                         [name |-> "bleu", percent |-> 0] >> ]

\* A two-dimensional (grey-level) array: `height, width, _ = image.shape`
\* raises ValueError on it.
ImageArrayGray ==
  [ shape |-> <<2, 2>>, contour_areas |-> <<>>, color_percent |-> <<>> ]

Paths == {NoneValue, "", "car.jpg", "notes.txt", "missing.jpg"}

\* Files that exist and can be read as bytes.
ReadablePaths == {"car.jpg", "notes.txt"}

\* Files cv2.imread decodes; for any other path it returns None.
DecodablePaths == {"car.jpg"}

imread(path) == ImageCar

ArrayNames == {NoneValue, "bgr", "gray"}

ArrayImage(name) == IF name = "bgr" THEN ImageArrayBGR ELSE ImageArrayGray

\* Python truth value of the image_path argument.
Truthy(path) == path # NoneValue /\ path # ""

ClassIds == {1, 7}

Confidences == {30, 50, 80}

\* One row of the network output detections[0, 0, i, :]: class id,
\* confidence and the normalised box (in hundredths of the image size).
Rows ==
  { [class_id |-> c, confidence |-> p, box |-> <<10, 20, 90, 100>>] :
      c \in ClassIds, p \in Confidences }

\* What net.forward() does: raises, or returns output rows.
ForwardOutcomes ==
  { [raised |-> TRUE, rows |-> <<>>] }
    \cup { [raised |-> FALSE, rows |-> r] : r \in SeqsUpTo(Rows, MaxRows) }

Descriptions == {s_Car_Door, s_car_door, s_Rusty_Bolt, s_flower}

Scores == {40, 90}

Annotations == { [description |-> d, score |-> s] : d \in Descriptions, s \in Scores }

\* What client.label_detection() does: raises, or returns a response with
\* its label annotations and its error message ("" when there is none).
RemoteOutcomes ==
  { [raised |-> TRUE, label_annotations |-> <<>>, error_message |-> ""] }
    \cup { [raised |-> FALSE, label_annotations |-> a, error_message |-> m] :
             a \in SeqsUpTo(Annotations, MaxAnnotations),
             m \in {"", "quota exceeded"} }

\* An operation's outcome: the value it returns, or an exception, and the
\* external operations it performed, in order.
Returned(v, t) == [raised |-> FALSE, value |-> v, trace |-> t]
Raised(t) == [raised |-> TRUE, value |-> [exception |-> TRUE], trace |-> t]

Event(op) == [op |-> op]

Performed(t, op) == \E i \in 1..Len(t) : t[i].op = op

---------------------------------------------------------------------------
(* Analyzers *)

\* f"Classe {class_id}" for a one-digit class id.
Digits == <<"0", "1", "2", "3", "4", "5", "6", "7", "8", "9">>
PlaceholderName(class_id) ==
  <<"C", "l", "a", "s", "s", "e", " ">> \o <<Digits[class_id + 1]>>

\* ImageRecognitionEngine._basic_image_analysis
_basic_image_analysis(image) ==
  IF Len(image.shape) # 3 THEN Raised(<<Event("_basic_image_analysis")>>)
  ELSE
    LET height == image.shape[1]
        width == image.shape[2]
        significant == SelectSeq(image.contour_areas, LAMBDA a : a > 500)
        dist == image.color_percent
        \* max(items, key=value): the first item with the largest value
        dominant == dist[CHOOSE i \in 1..Len(dist) :
                      /\ \A j \in 1..Len(dist) : dist[j].percent <= dist[i].percent
                      /\ \A j \in 1..(i - 1) : dist[j].percent < dist[i].percent]
    IN  Returned(
          [ success |-> TRUE,
            type |-> "basic_analysis",
            dimensions |-> [width |-> width, height |-> height],
            contours |-> [total |-> Len(image.contour_areas),
                          significant |-> Len(significant)],
            colors |-> [dominant |-> IF dominant.percent > 5 THEN dominant.name
                                     ELSE "indéterminé",
                        distribution |-> dist],
            possible_diagnoses |->
              << "Image analysée avec capacités basiques uniquement",
                 "Pour une analyse plus précise, veuillez configurer un modèle de détection" >> ],
          <<Event("_basic_image_analysis")>>)

\* The row test with >= in place of >.
Kept_inclusive(confidence, confidence_threshold) == confidence >= confidence_threshold

\* The test that keeps an output row.
Kept(confidence, confidence_threshold) == confidence > confidence_threshold

\* One kept row as a detection: the class name from the label table or the
\* placeholder, and the box scaled to pixels and truncated to integers.
Detection(self, row, width, height) ==
  [ class |-> IF row.class_id \in DOMAIN self.labels
              THEN self.labels[row.class_id]
              ELSE PlaceholderName(row.class_id),
    confidence |-> row.confidence,
    bounding_box |-> [x_min |-> (row.box[1] * width) \div 100,
                      y_min |-> (row.box[2] * height) \div 100,
                      x_max |-> (row.box[3] * width) \div 100,
                      y_max |-> (row.box[4] * height) \div 100] ]

\* The loop over the output rows: the kept rows, in output order.
CollectDetections(self, rows, width, height) ==
  LET kept == SelectSeq(rows, LAMBDA r : Kept(r.confidence, self.confidence_threshold))
  IN  [i \in 1..Len(kept) |-> Detection(self, kept[i], width, height)]

\* ImageRecognitionEngine._model_based_analysis; forward is what net.forward()
\* does on this call.
_model_based_analysis(self, image, forward) ==
  IF Len(image.shape) # 3 THEN Raised(<<Event("_model_based_analysis")>>)
  ELSE
    LET height == image.shape[1]
        width == image.shape[2]
        t == << Event("_model_based_analysis"), Event("setInput"),
                [op |-> "forward", raised |-> forward.raised, rows |-> forward.rows] >>
        results == CollectDetections(self, forward.rows, width, height)
    IN  IF forward.raised THEN Raised(t)
        ELSE Returned(
               [ success |-> TRUE,
                 type |-> "model_based_analysis",
                 dimensions |-> [width |-> width, height |-> height],
                 detections |-> results,
                 detected_count |-> Len(results),
                 possible_diagnoses |-> _generate_diagnoses(results) ],
               t)

\* analyze_image, lines 102-106: the dispatch on self.net.
Dispatch(self, image, forward) ==
  IF self.net = "None" THEN _basic_image_analysis(image)
  ELSE _model_based_analysis(self, image, forward)

\* An outcome with the events t put before its own.
After(t, outcome) == [outcome EXCEPT !.trace = t \o @]

\* The try block without the `if image is None` return and without the final
\* else: whatever was loaded, None included, goes to the analyzer, which
\* raises on None as it does on a shape it cannot unpack.
AnalyzeBody_no_input_check(self, image_path, image_array, forward) ==
  IF Truthy(image_path)
  THEN After(<<Event("imread")>>,
             Dispatch(self, IF image_path \in DecodablePaths THEN imread(image_path)
                            ELSE ImageArrayGray, forward))
  ELSE Dispatch(self, ArrayImage(image_array), forward)

\* analyze_image, lines 92-106: the body of the try block.
AnalyzeBody(self, image_path, image_array, forward) ==
  IF Truthy(image_path)
  THEN IF image_path \notin DecodablePaths
       THEN Returned([error |-> "Impossible de charger l'image"], <<Event("imread")>>)
       ELSE After(<<Event("imread")>>, Dispatch(self, imread(image_path), forward))
  ELSE IF image_array # NoneValue
       THEN Dispatch(self, ArrayImage(image_array), forward)
       ELSE Returned([error |-> "Aucune image fournie"], <<>>)

\* A body that is not wrapped in try/except: an exception leaves the call.
TryExcept_missing(outcome, message) == outcome

\* try: body / except Exception: return {"error": message}
TryExcept(outcome, message) ==
  IF outcome.raised THEN Returned([error |-> message], outcome.trace)
  ELSE outcome

\* ImageRecognitionEngine.analyze_image
analyze_image(self, image_path, image_array, forward) ==
  IF ~self.initialized
  THEN Returned([error |-> "Moteur d'analyse d'image non initialisé correctement"], <<>>)
  ELSE TryExcept(AnalyzeBody(self, image_path, image_array, forward),
                 "Erreur lors de l'analyse de l'image")

---------------------------------------------------------------------------
(* Cloud label analysis *)

\* {label.description.lower(): float(label.score) for label in labels}
RECURSIVE LabelDict(_)
LabelDict(annotations) ==
  IF annotations = <<>> THEN <<>>
  ELSE LET last == annotations[Len(annotations)]
       IN  DictSet(LabelDict(SubSeq(annotations, 1, Len(annotations) - 1)),
                   Lower(last.description), last.score)

\* The file read and the remote call that both label detections start with:
\* io.open(image_path, 'rb') raises unless the file can be read, then
\* label_detection raises or answers.
ReadAndDetect(image_path, remote) ==
  IF image_path \notin ReadablePaths THEN Raised(<<Event("io.open")>>)
  ELSE LET t == << Event("io.open"),
                   [op |-> "label_detection", raised |-> remote.raised,
                    label_annotations |-> remote.label_annotations,
                    error_message |-> remote.error_message] >>
       IN  IF remote.raised THEN Raised(t) ELSE Returned(remote, t)

\* ImageRecognitionEngine.detect_labels, lines 138-165: the result built from
\* the response.
LabelResult(response) ==
  LET label_results == LabelDict(response.label_annotations)
      anomalies == _detect_anomalies(label_results)
      res == [ success |-> TRUE,
               labels |-> label_results,
               anomalies_detected |-> Len(anomalies) > 0,
               anomalies |-> anomalies,
               sorted_labels |-> SortedDesc(label_results),
               car_related |-> _is_car_related(label_results) ]
  IN  IF response.error_message # ""
      THEN [ success |-> res.success, labels |-> res.labels,
             anomalies_detected |-> res.anomalies_detected,
             anomalies |-> res.anomalies, sorted_labels |-> res.sorted_labels,
             car_related |-> res.car_related,
             warning |-> <<"API Error", response.error_message>> ]
      ELSE res

\* ImageRecognitionEngine.detect_labels, lines 127-165: the try block.
DetectLabelsBody(image_path, remote) ==
  LET got == ReadAndDetect(image_path, remote)
  IN  IF got.raised THEN got
      ELSE Returned(LabelResult(got.value), got.trace)

\* detect_labels without the test of vision_api_available.
ImageRecognitionEngine_detect_labels_no_flag_test(self, image_path, remote) ==
  TryExcept(DetectLabelsBody(image_path, remote),
            "Erreur lors de l'analyse avec Google Cloud Vision")

\* ImageRecognitionEngine.detect_labels
ImageRecognitionEngine_detect_labels(self, image_path, remote) ==
  IF ~self.vision_api_available
  THEN Returned([ error |-> "API Google Cloud Vision non disponible",
                  message |-> "Vérifiez la configuration de vos credentials Google Cloud" ],
                <<>>)
  ELSE TryExcept(DetectLabelsBody(image_path, remote),
                 "Erreur lors de l'analyse avec Google Cloud Vision")

\* The standalone result with the descriptions kept as they are, not
\* lower-cased, as keys of the label map.
StandaloneLabelResult_no_lower(response) ==
  LET results == [i \in 1..Len(response.label_annotations) |->
                    [label |-> response.label_annotations[i].description,
                     score |-> response.label_annotations[i].score]]
      anomalies == ScanKeywords(standalone_anomaly_keywords, 1, WithLower(results))
      car_related == AnyKeywordHit(standalone_car_keywords, WithLower(results))
  IN  [ success |-> TRUE,
        labels |-> results,
        anomalies_detected |-> Len(anomalies) > 0,
        anomalies |-> anomalies,
        car_related |-> car_related ]

\* detect_labels (standalone), lines 431-477: the result built from the
\* response, with the function's own keyword lists and no sorting.
StandaloneLabelResult(response) ==
  LET results == LabelDict(response.label_annotations)
      anomalies == ScanKeywords(standalone_anomaly_keywords, 1, WithLower(results))
      car_related == AnyKeywordHit(standalone_car_keywords, WithLower(results))
  IN  [ success |-> TRUE,
        labels |-> results,
        anomalies_detected |-> Len(anomalies) > 0,
        anomalies |-> anomalies,
        car_related |-> car_related ]

\* detect_labels (standalone), lines 418-477: the try block. client_raises is
\* whether vision.ImageAnnotatorClient() raises on this call.
StandaloneBody(image_path, client_raises, remote) ==
  IF client_raises THEN Raised(<<Event("ImageAnnotatorClient")>>)
  ELSE LET got == After(<<Event("ImageAnnotatorClient")>>,
                        ReadAndDetect(image_path, remote))
       IN  IF got.raised THEN got
           ELSE Returned(StandaloneLabelResult(got.value), got.trace)

\* detect_labels (standalone)
detect_labels(image_path, client_raises, remote) ==
  TryExcept(StandaloneBody(image_path, client_raises, remote),
            "Erreur lors de l'analyse avec Google Cloud Vision")

---------------------------------------------------------------------------
(* The engine and its callers *)

NoCall == [op |-> "none"]
NoResult == [none |-> TRUE]

TypeOK ==
  /\ env \in Environments
  /\ pc \in {"idle", "called", "returned", "raised"}
  /\ engine = EngineInit(env)

\* The state after construction, in any environment.
Init ==
  /\ env \in {e \in Environments : Canonical(e)}
  /\ engine = EngineInit(env)
  /\ pc = "idle"
  /\ call = NoCall
  /\ result = NoResult
  /\ trace = <<>>

\* A call that returns: the caller holds the returned value.
Return(c, outcome) ==
  /\ pc' = IF outcome.raised THEN "raised" ELSE "returned"
  /\ call' = c
  /\ result' = outcome.value
  /\ trace' = outcome.trace
  /\ UNCHANGED <<env, engine>>

AnalyzeImage ==
  /\ pc = "idle"
  /\ \E image_path \in Paths, image_array \in ArrayNames, forward \in ForwardOutcomes :
       Return([op |-> "analyze_image", image_path |-> image_path,
               image_array |-> image_array],
              analyze_image(engine, image_path, image_array, forward))

EngineDetectLabels ==
  /\ pc = "idle"
  /\ \E image_path \in Paths, remote \in RemoteOutcomes :
       Return([op |-> "ImageRecognitionEngine.detect_labels", image_path |-> image_path],
              ImageRecognitionEngine_detect_labels(engine, image_path, remote))

StandaloneDetectLabels ==
  /\ pc = "idle"
  /\ \E image_path \in Paths, client_raises \in BOOLEAN, remote \in RemoteOutcomes :
       Return([op |-> "detect_labels", image_path |-> image_path],
              detect_labels(image_path, client_raises, remote))

\* The caller is done with the returned value and may call again. An
\* exception that reached the caller ends it.
CallerContinues ==
  /\ pc = "returned"
  /\ pc' = "idle"
  /\ call' = NoCall
  /\ result' = NoResult
  /\ trace' = <<>>
  /\ UNCHANGED <<env, engine>>

Next ==
  \/ AnalyzeImage
  \/ EngineDetectLabels
  \/ StandaloneDetectLabels
  \/ CallerContinues

Spec == Init /\ [][Next]_vars

---------------------------------------------------------------------------
(* The keyword helpers on their own: every label map within the bounds is  *)
(* handed to _is_car_related and to _detect_anomalies.                     *)

\* The engine main() constructs next to no model files and no credentials.
DefaultEnv ==
  [model_exists |-> FALSE, labels_exists |-> FALSE, readNet_raises |-> FALSE,
   labels_file |-> <<>>, vision_raises |-> TRUE, threshold |-> 50]

LabelPool ==
  { s_car_door, s_flower, s_cardboard, s_Rusty_Bolt, s_cracked_glass,
    s_corrosion, s_VEHICULE, <<>> }

\* Dicts of at most MaxLabels keys: item sequences without a repeated key.
LabelMaps ==
  { m \in SeqsUpTo({[label |-> l, score |-> s] : l \in LabelPool, s \in Scores},
                   MaxLabels) :
      \A i, j \in 1..Len(m) : m[i].label = m[j].label => i = j }

InitLabels ==
  /\ env = DefaultEnv
  /\ engine = EngineInit(env)
  /\ pc = "called"
  /\ call \in {[op |-> o, labels |-> m] :
                 o \in {"_is_car_related", "_detect_anomalies"}, m \in LabelMaps}
  /\ result = NoResult
  /\ trace = <<>>

IsCarRelated ==
  /\ pc = "called"
  /\ call.op = "_is_car_related"
  /\ pc' = "returned"
  /\ result' = [value |-> _is_car_related(call.labels)]
  /\ UNCHANGED <<env, engine, call, trace>>

DetectAnomalies ==
  /\ pc = "called"
  /\ call.op = "_detect_anomalies"
  /\ pc' = "returned"
  /\ result' = [value |-> _detect_anomalies(call.labels)]
  /\ UNCHANGED <<env, engine, call, trace>>

NextLabels ==
  \/ IsCarRelated
  \/ DetectAnomalies

SpecLabels == InitLabels /\ [][NextLabels]_vars

---------------------------------------------------------------------------
(* _generate_diagnoses on its own: every detection list within the bounds. *)

s_liquide_de_frein ==
  <<"l", "i", "q", "u", "i", "d", "e", " ", "d", "e", " ", "f", "r", "e", "i", "n">>
s_huile_moteur ==
  <<"H", "u", "i", "l", "e", " ", "m", "o", "t", "e", "u", "r">>
s_liquide == <<"l", "i", "q", "u", "i", "d", "e">>

ClassNamePool ==
  { s_frein_avant, s_brake, s_pneu, s_rouille, s_tache_de_rouille, s_fuite,
    s_fissure, s_volant, s_corrosion, s_liquide_de_frein, s_huile_moteur,
    s_liquide, PlaceholderName(7) }

DetectionLists ==
  SeqsUpTo({ [class |-> c, confidence |-> 80,
              bounding_box |-> [x_min |-> 0, y_min |-> 0, x_max |-> 5, y_max |-> 4]] :
               c \in ClassNamePool },
           MaxDetections)

InitDiagnoses ==
  /\ env = DefaultEnv
  /\ engine = EngineInit(env)
  /\ pc = "called"
  /\ call \in {[op |-> "_generate_diagnoses", detections |-> d] : d \in DetectionLists}
  /\ result = NoResult
  /\ trace = <<>>

GenerateDiagnoses ==
  /\ pc = "called"
  /\ call.op = "_generate_diagnoses"
  /\ pc' = "returned"
  /\ result' = [value |-> _generate_diagnoses(call.detections)]
  /\ UNCHANGED <<env, engine, call, trace>>

NextDiagnoses == GenerateDiagnoses

SpecDiagnoses == InitDiagnoses /\ [][NextDiagnoses]_vars

---------------------------------------------------------------------------
(* Properties of the engine (Spec) *)

ReturnedFrom(op) == pc = "returned" /\ call.op = op

Has(r, field) == field \in DOMAIN r

\* The call was given an image OpenCV can work on: a decodable file, or no
\* path and a three-channel array.
DecodableImageGiven ==
  \/ Truthy(call.image_path) /\ call.image_path \in DecodablePaths
  \/ ~Truthy(call.image_path) /\ call.image_array = "bgr"

\* C1: an engine constructed while the model file or the label file is
\* missing never runs model inference (setInput, forward) in any call, and
\* every analyze_image call given a decodable image returns a result of type
\* basic_analysis.
C1_NoModelFilesBasicOnly ==
  (~env.model_exists \/ ~env.labels_exists) =>
    /\ ~Performed(trace, "setInput")
    /\ ~Performed(trace, "forward")
    /\ (ReturnedFrom("analyze_image") /\ DecodableImageGiven) =>
         (Has(result, "type") /\ result.type = "basic_analysis")

C1_Witness ==
  /\ env.model_exists /\ ~env.labels_exists
  /\ ReturnedFrom("analyze_image")
  /\ call.image_path = "car.jpg"
  /\ Has(result, "type") /\ result.type = "basic_analysis"

\* C2: on an engine whose cloud vision client failed to construct, every
\* call of the engine's detect_labels returns a result with an error field
\* and no success field, and performs neither the file read nor the remote
\* label_detection call.
C2_NoClientNoRemoteCall ==
  (env.vision_raises /\ ReturnedFrom("ImageRecognitionEngine.detect_labels")) =>
    /\ Has(result, "error")
    /\ ~Has(result, "success")
    /\ ~Performed(trace, "io.open")
    /\ ~Performed(trace, "label_detection")

C2_Witness ==
  /\ env.vision_raises
  /\ ReturnedFrom("ImageRecognitionEngine.detect_labels")
  /\ call.image_path = "car.jpg"
  /\ Has(result, "error")

\* The rows net.forward() returned in the call that just ended.
ForwardRows ==
  trace[CHOOSE i \in 1..Len(trace) : trace[i].op = "forward"].rows

\* The indices of the output rows above the threshold.
AboveThreshold(rows, t) == {i \in 1..Len(rows) : rows[i].confidence > t}

\* The k-th smallest element of a set of indices.
KthIndex(S, k) == CHOOSE i \in S : Cardinality({j \in S : j <= i}) = k

ModelResult ==
  /\ ReturnedFrom("analyze_image")
  /\ Has(result, "type")
  /\ result.type = "model_based_analysis"

\* C3: on the model path, the detections analyze_image returns are exactly
\* the output rows with confidence strictly greater than the threshold, in
\* network output order; none has confidence <= the threshold, and
\* detected_count is the length of the list.
C3_DetectionsAboveThreshold ==
  ModelResult =>
    LET t == engine.confidence_threshold
        rows == ForwardRows
        above == AboveThreshold(rows, t)
        dets == result.detections
    IN  /\ \A k \in 1..Len(dets) : ~(dets[k].confidence <= t)
        /\ Len(dets) = Cardinality(above)
        /\ \A k \in 1..Len(dets) :
             LET row == rows[KthIndex(above, k)]
             IN  /\ dets[k].confidence = row.confidence
                 /\ dets[k].class = Detection(engine, row, 1, 1).class
        /\ result.detected_count = Len(dets)

C3_Witness ==
  /\ ModelResult
  /\ Len(ForwardRows) = 2
  /\ ForwardRows[1].confidence = engine.confidence_threshold
  /\ ForwardRows[2].confidence > engine.confidence_threshold
  /\ Len(result.detections) = 1
  /\ result.detected_count = 1

RanAnalyzer ==
  \/ Performed(trace, "_basic_image_analysis")
  \/ Performed(trace, "_model_based_analysis")

\* C8: analyze_image returns an error result and runs neither analyzer when
\* neither a path nor an array is given, and when the given path cannot be
\* decoded into an image (whether or not an array is given with it).
C8_InputErrors ==
  ReturnedFrom("analyze_image") =>
    LET neither == ~Truthy(call.image_path) /\ call.image_array = NoneValue
        undecodable == Truthy(call.image_path) /\ call.image_path \notin DecodablePaths
    IN  (neither \/ undecodable) =>
          /\ Has(result, "error")
          /\ ~Has(result, "success")
          /\ ~RanAnalyzer

C8_Witness ==
  /\ ReturnedFrom("analyze_image")
  /\ call.image_path = "missing.jpg"
  /\ call.image_array = "bgr"
  /\ Has(result, "error")
  /\ Performed(trace, "imread")

C8_WitnessNeither ==
  /\ ReturnedFrom("analyze_image")
  /\ call.image_path = NoneValue
  /\ call.image_array = NoneValue
  /\ Has(result, "error")

PublicOps == {"analyze_image", "ImageRecognitionEngine.detect_labels", "detect_labels"}

\* C9: every call of analyze_image, of the engine's detect_labels and of the
\* standalone detect_labels returns a value that carries either success =
\* true or an error field, never both and never neither, and no exception
\* reaches the caller.
C9_ResultOrError ==
  /\ pc # "raised"
  /\ (pc = "returned" /\ call.op \in PublicOps) =>
       /\ ~Has(result, "exception")
       /\ Has(result, "error") # (Has(result, "success") /\ result.success = TRUE)
       /\ Has(result, "error") \/ Has(result, "success")

C9_Witness ==
  /\ ReturnedFrom("ImageRecognitionEngine.detect_labels")
  /\ \E i \in 1..Len(trace) : trace[i].op = "label_detection" /\ trace[i].raised
  /\ Has(result, "error")

\* Loading the model or its label table raised during construction.
LoadRaised ==
  /\ env.model_exists
  /\ env.labels_exists
  /\ (env.readNet_raises \/ _load_labels(env.labels_file).raised)

\* C10 (as claimed): when loading the model or its label table raises during
\* construction, the engine is in basic-only mode: every later analyze_image
\* call on a decodable image runs the basic analyzer, not the model-based one.
C10_LoadFailureBasicOnly ==
  (LoadRaised /\ ReturnedFrom("analyze_image") /\ DecodableImageGiven) =>
    /\ Performed(trace, "_basic_image_analysis")
    /\ ~Performed(trace, "_model_based_analysis")

---------------------------------------------------------------------------
(* Properties of the keyword helpers (SpecLabels) *)

\* The distinct keywords of a keyword list.
KeywordSet(keywords) == {keywords[k] : k \in 1..Len(keywords)}

\* kw occurs in s at some position when letter case is ignored on both sides.
CaseInsensitiveSubstring(kw, s) ==
  \E i \in 0..(Len(s) - Len(kw)) :
    \A p \in 1..Len(kw) : LowerChar(s[i + p]) = LowerChar(kw[p])

HasKey(m, l) == \E j \in 1..Len(m) : m[j].label = l

\* C4: _is_car_related returns true iff some keyword of the car-keyword list
\* is a case-insensitive substring of some label key; so an empty label map
\* gives false and a map with the key "cardboard" gives true.
C4_CarRelatedIffKeywordSubstring ==
  ReturnedFrom("_is_car_related") =>
    LET m == call.labels
    IN  /\ result.value <=>
             \E kw \in KeywordSet(car_keywords) :
               \E j \in 1..Len(m) : CaseInsensitiveSubstring(kw, m[j].label)
        /\ (m = <<>>) => ~result.value
        /\ HasKey(m, s_cardboard) => result.value

C4_Witness ==
  /\ ReturnedFrom("_is_car_related")
  /\ Len(call.labels) = 1
  /\ HasKey(call.labels, s_cardboard)
  /\ result.value

C4_WitnessFalse ==
  /\ ReturnedFrom("_is_car_related")
  /\ HasKey(call.labels, s_flower)
  /\ ~result.value

\* How many entries of a list satisfy a test.
CountWhere(list, Test(_)) == Cardinality({i \in 1..Len(list) : Test(list[i])})

\* C5: _detect_anomalies returns a list in non-increasing score order that
\* holds one entry {type, label, score} for every pair (keyword list entry,
\* label) where the keyword is a substring of the lower-cased label, without
\* de-duplication, and no entry for any other pair.
C5_AnomaliesSortedOnePerMatch ==
  ReturnedFrom("_detect_anomalies") =>
    LET m == call.labels
        r == result.value
        Matches(kw, item) == Contains(kw, Lower(item.label))
    IN  /\ \A i, j \in 1..Len(r) : i < j => r[i].score >= r[j].score
        /\ \A kw \in KeywordSet(anomaly_keywords) : \A j \in 1..Len(m) :
             CountWhere(r, LAMBDA a : a = [type |-> kw, label |-> m[j].label,
                                           score |-> m[j].score])
               = IF Matches(kw, m[j])
                 THEN CountWhere(anomaly_keywords, LAMBDA entry : entry = kw)
                 ELSE 0
        /\ \A i \in 1..Len(r) :
             /\ r[i].type \in KeywordSet(anomaly_keywords)
             /\ \E j \in 1..Len(m) :
                  /\ r[i].label = m[j].label
                  /\ r[i].score = m[j].score
                  /\ Matches(r[i].type, m[j])

\* A low-scored label matched by two different keywords and by a keyword
\* the list holds twice, placed before a high-scored match.
C5_Witness ==
  /\ ReturnedFrom("_detect_anomalies")
  /\ Len(call.labels) = 2
  /\ call.labels[1] = [label |-> s_corrosion, score |-> 40]
  /\ call.labels[2] = [label |-> s_cracked_glass, score |-> 90]
  /\ Len(result.value) = 4
  /\ result.value[1].label = s_cracked_glass
  /\ result.value[3] = result.value[4]

---------------------------------------------------------------------------
(* Properties of _generate_diagnoses (SpecDiagnoses) *)

BrakeAdvice == component_diagnoses[1].diagnosis

Includes(list, x) == \E i \in 1..Len(list) : list[i] = x

\* C6 (as claimed): a detection list that contains a detection whose class
\* name is "brake" gets the brake advisory string.
C6_BrakeClassGetsBrakeAdvice ==
  (ReturnedFrom("_generate_diagnoses")
     /\ \E i \in 1..Len(call.detections) : call.detections[i].class = s_brake)
  => Includes(result.value, BrakeAdvice)

\* C6 (amended): a detection list that contains a detection whose lower-cased
\* class name contains "frein" gets the brake advisory string.
C6_FreinClassGetsBrakeAdvice ==
  (ReturnedFrom("_generate_diagnoses")
     /\ \E i \in 1..Len(call.detections) :
          Contains(<<"f", "r", "e", "i", "n">>, Lower(call.detections[i].class)))
  => Includes(result.value, BrakeAdvice)

C6_Witness ==
  /\ ReturnedFrom("_generate_diagnoses")
  /\ Len(call.detections) = 2
  /\ call.detections[1].class = s_brake
  /\ call.detections[2].class = s_frein_avant
  /\ result.value = <<BrakeAdvice>>

ComponentNames ==
  { <<"f", "r", "e", "i", "n">>, <<"p", "n", "e", "u">>, <<"h", "u", "i", "l", "e">>,
    <<"m", "o", "t", "e", "u", "r">>, <<"b", "a", "t", "t", "e", "r", "i", "e">>,
    <<"p", "h", "a", "r", "e">> }

ConditionNames ==
  { <<"r", "o", "u", "i", "l", "l", "e">>, <<"c", "o", "r", "r", "o", "s", "i", "o", "n">>,
    <<"f", "u", "i", "t", "e">>, <<"l", "i", "q", "u", "i", "d", "e">>,
    <<"f", "i", "s", "s", "u", "r", "e">> }

\* Some component rule or condition rule applies to the detections.
SomeRuleFires(detections) ==
  \E i \in 1..Len(detections) :
    \/ \E c \in ComponentNames : Contains(c, Lower(detections[i].class))
    \/ Lower(detections[i].class) \in ConditionNames

\* C7: _generate_diagnoses never returns an empty list; an empty detection
\* list gives exactly the "nothing recognized" message; a non-empty one on
\* which no rule fires gives exactly the "no specific issue" message; and
\* neither of the two messages ever stands next to another message.
C7_FallbackMessages ==
  ReturnedFrom("_generate_diagnoses") =>
    LET d == call.detections
        r == result.value
    IN  /\ r # <<>>
        /\ (d = <<>>) => r = <<NothingRecognized>>
        /\ (d # <<>> /\ ~SomeRuleFires(d)) => r = <<NoSpecificIssue>>
        /\ (Includes(r, NothingRecognized) \/ Includes(r, NoSpecificIssue))
             => Len(r) = 1
        /\ Includes(r, NothingRecognized) => d = <<>>
        /\ Includes(r, NoSpecificIssue) => (d # <<>> /\ ~SomeRuleFires(d))

C7_Witness ==
  /\ ReturnedFrom("_generate_diagnoses")
  /\ Len(call.detections) = 2
  /\ call.detections[1].class = s_tache_de_rouille
  /\ call.detections[2].class = s_volant
  /\ result.value = <<NoSpecificIssue>>

C7_WitnessEmpty ==
  /\ ReturnedFrom("_generate_diagnoses")
  /\ call.detections = <<>>
  /\ result.value = <<NothingRecognized>>

\* Some detected class name contains the keyword, ignoring case.
ClassMentions(detections, keyword) ==
  \E i \in 1..Len(detections) : Contains(keyword, Lower(detections[i].class))

\* C11 (as claimed): on a non-empty detection list, the corrosion, leak or
\* crack advisory is appended whenever some detected class name contains the
\* condition keyword as a substring, not only when a name equals it.
C11_ConditionKeywordSubstring ==
  (ReturnedFrom("_generate_diagnoses") /\ call.detections # <<>>) =>
    LET d == call.detections
        r == result.value
    IN  /\ (ClassMentions(d, s_rouille) \/ ClassMentions(d, s_corrosion))
             => Includes(r, CorrosionAdvice)
        /\ (ClassMentions(d, s_fuite) \/ ClassMentions(d, s_liquide))
             => Includes(r, LeakAdvice)
        /\ ClassMentions(d, <<"f", "i", "s", "s", "u", "r", "e">>)
             => Includes(r, CrackAdvice)

---------------------------------------------------------------------------
(* The two label detections on one response: main() calls the engine's     *)
(* detect_labels and then the standalone detect_labels on the same image.  *)

s_Door == <<"D", "o", "o", "r">>

AgreementDescriptions ==
  {s_Car_Door, s_car_door, s_Rusty_Bolt, s_flower, s_corrosion, s_Door}

\* Responses of the remote service to the image, the same for both calls.
AgreementResponses ==
  { [raised |-> FALSE, label_annotations |-> a, error_message |-> m] :
      a \in SeqsUpTo({[description |-> d, score |-> sc] :
                        d \in AgreementDescriptions, sc \in Scores},
                     MaxAnnotations),
      m \in {"", "quota exceeded"} }

\* An environment with credentials: the engine's client is constructed.
CloudEnv == [DefaultEnv EXCEPT !.vision_raises = FALSE]

InitAgreement ==
  /\ env = CloudEnv
  /\ engine = EngineInit(env)
  /\ pc = "called"
  /\ call \in {[op |-> "main", image_path |-> "car.jpg", remote |-> r] :
                 r \in AgreementResponses}
  /\ result = NoResult
  /\ trace = <<>>

BothDetectLabels ==
  /\ pc = "called"
  /\ call.op = "main"
  /\ pc' = "returned"
  /\ result' =
       [ engine |-> ImageRecognitionEngine_detect_labels(
                      engine, call.image_path, call.remote).value,
         standalone |-> detect_labels(call.image_path, FALSE, call.remote).value ]
  /\ UNCHANGED <<env, engine, call, trace>>

NextAgreement == BothDetectLabels

SpecAgreement == InitAgreement /\ [][NextAgreement]_vars

\* C12 (as claimed): for every response the standalone function and the
\* engine method return the same labels map, the same car_related flag, the
\* same anomalies_detected flag and the same anomalies list in the same order.
C12_ImplementationsAgree ==
  ReturnedFrom("main") =>
    /\ result.standalone.labels = result.engine.labels
    /\ result.standalone.car_related = result.engine.car_related
    /\ result.standalone.anomalies_detected = result.engine.anomalies_detected
    /\ result.standalone.anomalies = result.engine.anomalies

\* C12 (amended): both return the same labels map; the standalone function
\* reports no more than the engine: its car_related and anomalies_detected
\* flags imply the engine's, and every entry of its anomalies list occurs at
\* least as often in the engine's list.
C12_StandaloneWithinEngine ==
  ReturnedFrom("main") =>
    LET e == result.engine
        f == result.standalone
    IN  /\ f.labels = e.labels
        /\ f.car_related => e.car_related
        /\ f.anomalies_detected => e.anomalies_detected
        /\ \A i \in 1..Len(f.anomalies) :
             CountWhere(f.anomalies, LAMBDA a : a = f.anomalies[i])
               <= CountWhere(e.anomalies, LAMBDA a : a = f.anomalies[i])

\* "Door" and "Rusty Bolt": only the engine's lists hold "door" and "rusty".
C12_Witness ==
  /\ ReturnedFrom("main")
  /\ Len(result.engine.labels) = 2
  /\ result.engine.car_related /\ ~result.standalone.car_related
  /\ Len(result.standalone.anomalies) = 1
  /\ Len(result.engine.anomalies) = 2

====
